---- MODULE Spec2Model ----
(***************************************************************************)
(* SimpleMemoryBank (test-memory-bank/simple_memory_test.py): the local,   *)
(* in-memory simulation of a memory bank.  Per user it keeps a list of     *)
(* conversation turns (self.sessions) and a list of extracted facts        *)
(* (self.memories); extraction and search are delegated to a generative    *)
(* text call whose answer is parsed as JSON.                                *)
(*                                                                         *)
(* Values are modelled as follows.                                         *)
(*  - a text is a sequence of tokens, so that str.replace of the fence     *)
(*    markers is a filter on the tokens;                                   *)
(*  - a JSON value is a record tagged by t: "list" (v a sequence of JSON   *)
(*    values), "obj" (v a function from keys to field values), "str"       *)
(*    (v a text), "num", "null";                                           *)
(*  - a Python dict is a function from its keys; a missing key is a key    *)
(*    outside its DOMAIN;                                                  *)
(*  - datetime.now().isoformat() is the single token Now.                  *)
(***************************************************************************)
EXTENDS Integers, Sequences, FiniteSets, TLC

VARIABLES
    sessions,   \* self.sessions: user_id -> list of turns
    memories,   \* self.memories: user_id -> list of facts
    call,       \* the last call made on the store: its name and arguments
    ret,        \* how that call ended: the return statement's line and value
    gen,        \* the generation exchanges of that call: <<[prompt, response]>>
    pre,        \* self.sessions and self.memories when that call began
    threads,    \* callers running add_session_message step by step: thread -> frame
    lock,       \* the holder of the callers' lock, NoThread when it is free
    locking,    \* whether the callers run each call under the lock
    mapping_file,   \* ~/.claude/memory_bank_sessions.json: Claude id -> session id
    memory_sessions,    \* the Memory Bank sessions created so far, in order
    procs,      \* hook and command processes: process -> frame
    context_files   \* ~/.claude/memory_contexts: Claude id -> memories written

bank_vars == <<sessions, memories, call, ret, gen, pre>>
thread_vars == <<threads, lock, locking>>
hook_vars == <<mapping_file, memory_sessions, procs, context_files>>

vars == <<bank_vars, thread_vars, hook_vars>>

----------------------------------------------------------------------------
(* Bounds of the model *)

MaxTurns == 2       \* turns stored over all users, under Spec
MaxFacts == 2       \* facts stored over all users, under Spec
MaxOneTurns == 1    \* turns stored, under SpecOne
MaxOneFacts == 4    \* facts stored, under SpecOne
MaxItems == 2       \* items of a list the extraction call answers with
MaxResults == 6     \* items of a list the search call answers with
MaxAddTurns == 2    \* turns stored over all users, under SpecAdd
MaxTextTurns == 1   \* turns stored, under SpecText
MaxSessionTurns == 3    \* turns stored, under SpecSessions
MaxSessionFacts == 1    \* facts stored, under SpecSessions
MaxTextFacts == 4   \* facts stored, under SpecText
MaxPairTurns == 2   \* turns stored over both users, under SpecPair
MaxPairFacts == 1   \* facts stored over both users, under SpecPair
MaxThreadCalls == 1 \* calls each concurrent caller makes, under SpecThreads
MaxHookRuns == 2    \* hook invocations, under SpecHooks
MaxReuseRuns == 3   \* hook and command invocations, under SpecReuse
MaxRaceRuns == 1    \* invocations of each of the two processes, under SpecRace
MaxCommandRuns == 2 \* command invocations, under SpecCommand
MaxRetrieved == 11  \* memories the service returns, under SpecRetrieve
MaxLoadRuns == 1    \* invocations of the load_context hook, under SpecLoad

----------------------------------------------------------------------------
(* Argument values *)

UserIds == {"u1", "u2"}
SessionIds == {"s1", "s2"}
Roles == {"user", "assistant"}
Contents == {<<"hello">>}
Queries == {<<"food">>}

Now == "now"

Min(a, b) == IF a <= b THEN a ELSE b

RECURSIVE SetToSeq(_)
SetToSeq(S) ==
    IF S = {} THEN <<>>
    ELSE LET x == CHOOSE y \in S : TRUE IN <<x>> \o SetToSeq(S \ {x})

RECURSIVE SumLen(_, _)
SumLen(f, D) ==
    IF D = {} THEN 0
    ELSE LET d == CHOOSE y \in D : TRUE IN Len(f[d]) + SumLen(f, D \ {d})

\* number of list elements a dict of lists holds
Total(f) == SumLen(f, DOMAIN f)

----------------------------------------------------------------------------
(* JSON values *)

None == [t |-> "null"]
JNum == [t |-> "num"]
JStr(text) == [t |-> "str", v |-> text]
JObj(d) == [t |-> "obj", v |-> d]
JList(s) == [t |-> "list", v |-> s]
EmptyDict == [k \in {} |-> None]
EmptyList == JList(<<>>)

\* the list of dicts xs as a JSON value
DictList(xs) == JList([i \in 1..Len(xs) |-> JObj(xs[i])])

\* the store's view of a user: the list under the key, [] when the key is absent
ListOf(d, user_id) == IF user_id \in DOMAIN d THEN d[user_id] ELSE <<>>

----------------------------------------------------------------------------
(* add_session_message *)

NewTurn(session_id, role, content) ==
    [session_id |-> session_id, role |-> role, content |-> content,
     timestamp |-> Now]

\* a slip: the list is initialised on every call, not only for an unknown user
AppendTurnResets(s, user_id, turn) ==
    IF user_id \in DOMAIN s THEN [s EXCEPT ![user_id] = <<turn>>]
    ELSE s @@ (user_id :> <<turn>>)

\* a validation the code does not have: an empty user_id stores nothing
AppendTurnSkipsEmpty(s, user_id, turn) ==
    IF user_id = "" THEN s
    ELSE IF user_id \in DOMAIN s THEN [s EXCEPT ![user_id] = Append(@, turn)]
    ELSE s @@ (user_id :> <<turn>>)

AppendTurn(s, user_id, turn) ==
    LET created == IF user_id \notin DOMAIN s THEN s @@ (user_id :> <<>>) ELSE s
    IN  [created EXCEPT ![user_id] = Append(@, turn)]

AddSessionMessage(user_id, session_id, role, content) ==
    /\ sessions' = AppendTurn(sessions, user_id, NewTurn(session_id, role, content))
    /\ UNCHANGED memories
    /\ call' = [op |-> "add_session_message", user_id |-> user_id,
                session_id |-> session_id, role |-> role, content |-> content]
    /\ ret' = [kind |-> "return", line |-> 48, value |-> None]
    /\ gen' = <<>>
    /\ pre' = [sessions |-> sessions, memories |-> memories]
    /\ UNCHANGED <<thread_vars, hook_vars>>

----------------------------------------------------------------------------
(* The generation call: model.generate_content(prompt), then response.text *)

\* the tokens standing for the fence markers: three backquotes followed by
\* json, and three backquotes alone
FenceJson == "<fence-json>"
Fence == "<fence>"

\* the call raised, or reading response.text raised
Raised == [raises |-> TRUE]
\* the call answered with a text: body, alone or inside a json-labelled fenced block
Raw(body) == [raises |-> FALSE, fence |-> "none", body |-> body]
Fenced(body) == [raises |-> FALSE, fence |-> "json", body |-> body]

\* a body that is no JSON document
Garbage == [t |-> "garbage"]

\* text.replace(FenceJson, '').replace(Fence, '') on a text
StripText(text) ==
    SelectSeq(SelectSeq(text, LAMBDA tok : tok # FenceJson), LAMBDA tok : tok # Fence)

TextKeys == {"fact", "context"}

StripDict(d) ==
    [k \in DOMAIN d |-> IF k \in TextKeys THEN StripText(d[k]) ELSE d[k]]

\* the replace acts on the whole response text, so on every text inside the body
RECURSIVE StripBody(_)
StripBody(body) ==
    CASE body.t = "list" -> JList([i \in 1..Len(body.v) |-> StripBody(body.v[i])])
      [] body.t = "obj"  -> JObj(StripDict(body.v))
      [] body.t = "str"  -> JStr(StripText(body.v))
      [] OTHER           -> body

\* strip(), the startswith(FenceJson) test and its replace, then json.loads:
\* [ok |-> FALSE] stands for the JSONDecodeError
ParseJson(response) ==
    LET body == IF response.fence = "json" THEN StripBody(response.body)
                ELSE response.body
    IN  IF body = Garbage THEN [ok |-> FALSE] ELSE [ok |-> TRUE, value |-> body]

----------------------------------------------------------------------------
(* extract_memories *)

\* a slip: the filter on session_id is missing
AllMessages(user_id, session_id) == sessions[user_id]

RECURSIVE TurnsOfUsers(_, _)
TurnsOfUsers(s, users) ==
    IF users = <<>> THEN <<>> ELSE s[Head(users)] \o TurnsOfUsers(s, Tail(users))

\* a slip: the session is looked up by session_id alone, over every user
SessionMessagesOfAnyUser(user_id, session_id) ==
    SelectSeq(TurnsOfUsers(sessions, SetToSeq(DOMAIN sessions)),
              LAMBDA msg : msg.session_id = session_id)

\* the turns of the user's list that carry session_id, in list order
SessionMessages(user_id, session_id) ==
    SelectSeq(sessions[user_id], LAMBDA msg : msg.session_id = session_id)

\* a slip: the lines in reverse order
ConversationReversed(session_messages) ==
    [i \in 1..Len(session_messages) |->
        <<session_messages[Len(session_messages) + 1 - i].role,
          session_messages[Len(session_messages) + 1 - i].content>>]

\* "\n".join(f"{role}: {content}") as the sequence of its lines
Conversation(session_messages) ==
    [i \in 1..Len(session_messages) |->
        <<session_messages[i].role, session_messages[i].content>>]

ExtractionPrompt(conversation) == [kind |-> "extraction", conversation |-> conversation]

\* a slip: setdefault, so a session_id the object carries is kept
StampKeepsCarried(memory, session_id) ==
    [k \in DOMAIN memory \cup {"session_id", "extracted_at"} |->
        IF k = "extracted_at" THEN Now
        ELSE IF k \in DOMAIN memory THEN memory[k]
        ELSE session_id]

\* memory['session_id'] = session_id; memory['extracted_at'] = now
Stamp(memory, session_id) ==
    [k \in DOMAIN memory \cup {"session_id", "extracted_at"} |->
        IF k = "session_id" THEN session_id
        ELSE IF k = "extracted_at" THEN Now
        ELSE memory[k]]

\* what the loop 'for memory in extracted_memories' iterates over: the elements of a
\* list, the keys of a dict, the characters of a string; a number and null
\* are not iterable
Iterable(value) == value.t \in {"list", "obj", "str"}

IterItems(value) ==
    CASE value.t = "list" -> value.v
      [] value.t = "obj"  -> LET keys == SetToSeq(DOMAIN value.v)
                             IN  [i \in 1..Len(keys) |-> JStr(<<keys[i]>>)]
      [] value.t = "str"  -> [i \in 1..Len(value.v) |-> JStr(<<value.v[i]>>)]

\* a slip: insert(0, memory), so new facts go in front of the stored ones
RECURSIVE StoreLoopPrepends(_, _, _)
StoreLoopPrepends(items, mem, session_id) ==
    IF items = <<>> THEN [raised |-> FALSE, mem |-> mem]
    ELSE IF Head(items).t # "obj" THEN [raised |-> TRUE, mem |-> mem]
    ELSE StoreLoopPrepends(Tail(items), <<Stamp(Head(items).v, session_id)>> \o mem,
                           session_id)

\* the loop body on items, appending to the list mem; item assignment on
\* anything but a dict raises TypeError, and what was appended before stays
RECURSIVE StoreLoop(_, _, _)
StoreLoop(items, mem, session_id) ==
    IF items = <<>> THEN [raised |-> FALSE, mem |-> mem]
    ELSE IF Head(items).t # "obj" THEN [raised |-> TRUE, mem |-> mem]
    ELSE StoreLoop(Tail(items), Append(mem, Stamp(Head(items).v, session_id)),
                   session_id)

\* the parsed value after the loop stamped its dicts in place (the returned
\* object is the parsed one, whose elements are the stored dicts)
Stamped(value, session_id) ==
    IF value.t = "list"
    THEN JList([i \in 1..Len(value.v) |-> JObj(Stamp(value.v[i].v, session_id))])
    ELSE value

\* the try block of extract_memories given the response: the store after it
\* and either the value returned at line 108 or the exception caught at 110
ExtractTry(user_id, session_id, response) ==
    IF response.raises THEN [raised |-> TRUE, memories |-> memories]
    ELSE LET parsed == ParseJson(response) IN
    IF ~parsed.ok THEN [raised |-> TRUE, memories |-> memories]
    ELSE LET created == IF user_id \notin DOMAIN memories
                        THEN memories @@ (user_id :> <<>>) ELSE memories
         IN
    IF ~Iterable(parsed.value) THEN [raised |-> TRUE, memories |-> created]
    ELSE LET loop == StoreLoop(IterItems(parsed.value), created[user_id], session_id)
             stored == [created EXCEPT ![user_id] = loop.mem]
         IN  IF loop.raised THEN [raised |-> TRUE, memories |-> stored]
             ELSE [raised |-> FALSE, memories |-> stored,
                   value |-> Stamped(parsed.value, session_id)]

\* a slip: only the unknown user returns early
UnknownUserOnly(user_id, session_id) == user_id \notin DOMAIN sessions

\* the early returns of lines 52-53 and 61-62
NoSessionMessages(user_id, session_id) ==
    IF user_id \notin DOMAIN sessions THEN TRUE
    ELSE SessionMessages(user_id, session_id) = <<>>

ExtractEarly(user_id, session_id) ==
    /\ NoSessionMessages(user_id, session_id)
    /\ UNCHANGED <<sessions, memories>>
    /\ call' = [op |-> "extract_memories", user_id |-> user_id,
                session_id |-> session_id]
    /\ ret' = [kind |-> "return",
               line |-> IF user_id \notin DOMAIN sessions THEN 53 ELSE 62,
               value |-> EmptyList]
    /\ gen' = <<>>
    /\ pre' = [sessions |-> sessions, memories |-> memories]
    /\ UNCHANGED <<thread_vars, hook_vars>>

ExtractCall(user_id, session_id, response) ==
    /\ LET prompt == ExtractionPrompt(Conversation(SessionMessages(user_id, session_id)))
           try == ExtractTry(user_id, session_id, response)
       IN  /\ memories' = try.memories
           /\ ret' = IF try.raised
                     THEN [kind |-> "return", line |-> 112, value |-> EmptyList]
                     ELSE [kind |-> "return", line |-> 108, value |-> try.value]
           /\ gen' = <<[prompt |-> prompt, response |-> response]>>
    /\ UNCHANGED sessions
    /\ call' = [op |-> "extract_memories", user_id |-> user_id,
                session_id |-> session_id]
    /\ pre' = [sessions |-> sessions, memories |-> memories]
    /\ UNCHANGED <<thread_vars, hook_vars>>

\* one call of extract_memories, the generation call answering with one of
\* responses
ExtractMemories(user_id, session_id, responses) ==
    \/ ExtractEarly(user_id, session_id)
    \/ /\ ~NoSessionMessages(user_id, session_id)
       /\ \E response \in responses : ExtractCall(user_id, session_id, response)

----------------------------------------------------------------------------
(* What the generation call may answer an extraction prompt with *)

PizzaFact == [fact |-> <<"pizza">>, context |-> <<"lunch">>, importance |-> 8]
\* an object that lacks a context, scores out of range and carries a session_id
AisleFact == [fact |-> <<"aisle">>, importance |-> 11, session_id |-> "s2"]

GenObjects == {PizzaFact, AisleFact}
ExtractItems == {JObj(o) : o \in GenObjects} \cup {JNum}

SeqsUpTo(S, n) == UNION {[1..k -> S] : k \in 0..n}

\* a JSON list of any items; a dict, empty or not; a string, empty or not; a
\* number; and a text that is no JSON
ExtractBodies(n) ==
    {JList(s) : s \in SeqsUpTo(ExtractItems, n)}
        \cup {JObj(EmptyDict), JObj(PizzaFact), JStr(<<>>), JStr(<<"none">>), JNum}
        \cup {Garbage}

ExtractResponses(n) ==
    {Raised} \cup {Raw(b) : b \in ExtractBodies(n)}
             \cup {Fenced(b) : b \in {JList(<<JObj(PizzaFact)>>), Garbage}}

\* one response of each kind the two-user specification needs: an error, an
\* empty list, a list of one object, a list whose second item is no object
FewExtractResponses ==
    {Raised, Raw(EmptyList), Raw(JList(<<JObj(AisleFact)>>)),
     Raw(JList(<<JObj(PizzaFact), JNum>>))}

----------------------------------------------------------------------------
(* search_memories *)

\* a slip: the test for an empty list is missing
NoMemoriesKey(user_id) == user_id \notin DOMAIN memories

\* the early returns of lines 116-117 and 120-121
NoMemories(user_id) ==
    IF user_id \notin DOMAIN memories THEN TRUE ELSE memories[user_id] = <<>>

SearchPrompt(query, user_memories) ==
    [kind |-> "search", query |-> query, memories |-> user_memories]

\* a slip: the whole list
FallbackAll(user_memories) == user_memories

\* a slip: user_memories[-3:]
FallbackLast(user_memories) ==
    SubSeq(user_memories, Len(user_memories) - Min(3, Len(user_memories)) + 1,
           Len(user_memories))

\* user_memories[:3]
Fallback(user_memories) == SubSeq(user_memories, 1, Min(3, Len(user_memories)))

\* a slip: an error of the call answers with an empty result, not the fallback
SearchTryEmptyOnError(response) ==
    IF response.raises THEN [raised |-> FALSE, value |-> EmptyList]
    ELSE LET parsed == ParseJson(response) IN
         IF ~parsed.ok THEN [raised |-> TRUE]
         ELSE [raised |-> FALSE, value |-> parsed.value]

\* the try block of search_memories given the response: the value returned at
\* line 144, or the exception caught at 146
SearchTry(response) ==
    IF response.raises THEN [raised |-> TRUE]
    ELSE LET parsed == ParseJson(response) IN
         IF ~parsed.ok THEN [raised |-> TRUE]
         ELSE [raised |-> FALSE, value |-> parsed.value]

SearchEarly(user_id, query) ==
    /\ NoMemories(user_id)
    /\ UNCHANGED <<sessions, memories>>
    /\ call' = [op |-> "search_memories", user_id |-> user_id, query |-> query]
    /\ ret' = [kind |-> "return",
               line |-> IF user_id \notin DOMAIN memories THEN 117 ELSE 121,
               value |-> EmptyList]
    /\ gen' = <<>>
    /\ pre' = [sessions |-> sessions, memories |-> memories]
    /\ UNCHANGED <<thread_vars, hook_vars>>

SearchCall(user_id, query, response) ==
    /\ LET user_memories == memories[user_id]
           try == SearchTry(response)
       IN  /\ ret' = IF try.raised
                     THEN [kind |-> "return", line |-> 148,
                           value |-> DictList(Fallback(user_memories))]
                     ELSE [kind |-> "return", line |-> 144, value |-> try.value]
           /\ gen' = <<[prompt |-> SearchPrompt(query, user_memories),
                        response |-> response]>>
    /\ UNCHANGED <<sessions, memories>>
    /\ call' = [op |-> "search_memories", user_id |-> user_id, query |-> query]
    /\ pre' = [sessions |-> sessions, memories |-> memories]
    /\ UNCHANGED <<thread_vars, hook_vars>>

\* one call of search_memories, the generation call answering with one of
\* responses
SearchMemories(user_id, query, responses) ==
    \/ SearchEarly(user_id, query)
    \/ /\ ~NoMemories(user_id)
       /\ \E response \in responses : SearchCall(user_id, query, response)

----------------------------------------------------------------------------
(* What the generation call may answer a search prompt with *)

Scored(memory, score) == memory @@ ("relevance_score" :> score)

ResultItems ==
    {JObj(Scored(Stamp(PizzaFact, "s1"), 9)), JObj(Scored(Stamp(AisleFact, "s1"), 4))}

Repeat(x, n) == [i \in 1..n |-> x]

\* lists of up to two results in any order, longer lists of one result
\* repeated, a dict, a number, and a text that is no JSON
SearchBodies(n) ==
    {JList(s) : s \in SeqsUpTo(ResultItems, 2)}
        \cup {JList(Repeat(JObj(Scored(Stamp(PizzaFact, "s1"), 9)), k)) : k \in 3..n}
        \cup {JObj(EmptyDict), JNum, Garbage}

SearchResponses(n) ==
    {Raised} \cup {Raw(b) : b \in SearchBodies(n)}
             \cup {Fenced(b) : b \in {JList(<<JObj(Scored(Stamp(PizzaFact, "s1"), 9))>>),
                                      Garbage}}

\* the call answering with the user's stored list itself, nothing added
EchoResponse(user_id) == Raw(DictList(ListOf(memories, user_id)))

FewSearchResponses ==
    {Raised, Raw(JList(<<JObj(Scored(Stamp(AisleFact, "s1"), 4))>>))}

----------------------------------------------------------------------------
(* get_memory_summary *)

NoMemoriesMessage == JStr(<<"No memories found for this user.">>)

\* the returned string as the sequence of its lines
SummaryText(user_memories) ==
    JStr(<< <<"User has", Len(user_memories), "stored memories:">> >>
         \o [i \in 1..Len(user_memories) |-> <<"-", user_memories[i].fact>>])

GetMemorySummary(user_id) ==
    /\ UNCHANGED <<sessions, memories>>
    /\ call' = [op |-> "get_memory_summary", user_id |-> user_id]
    /\ ret' = IF user_id \notin DOMAIN memories
              THEN [kind |-> "return", line |-> 153, value |-> NoMemoriesMessage]
              ELSE IF memories[user_id] = <<>>
              THEN [kind |-> "return", line |-> 157, value |-> NoMemoriesMessage]
              ELSE IF \E i \in 1..Len(memories[user_id]) :
                         "fact" \notin DOMAIN memories[user_id][i]
              THEN [kind |-> "raise", line |-> 159, value |-> "KeyError"]
              ELSE [kind |-> "return", line |-> 160,
                    value |-> SummaryText(memories[user_id])]
    /\ gen' = <<>>
    /\ pre' = [sessions |-> sessions, memories |-> memories]
    /\ UNCHANGED <<thread_vars, hook_vars>>

----------------------------------------------------------------------------
(* add_session_message run by concurrent callers, one statement at a time *)

Threads == {"t1", "t2"}
NoThread == "none"

\* a slip: the list is created whether or not the user is known
UserAlwaysAbsent(s, user_id) == TRUE

\* line 40: user_id not in self.sessions
UserAbsent(s, user_id) == user_id \notin DOMAIN s

\* the caller enters add_session_message; callers that serialize their calls
\* take the lock first
ThreadCall(t, user_id, session_id, role, content) ==
    /\ threads[t].pc = "idle"
    /\ threads[t].calls < MaxThreadCalls
    /\ IF locking THEN lock = NoThread /\ lock' = t ELSE UNCHANGED lock
    /\ threads' = [threads EXCEPT ![t] =
                      [pc |-> "test", calls |-> @.calls, user_id |-> user_id,
                       turn |-> NewTurn(session_id, role, content)]]
    /\ UNCHANGED <<bank_vars, locking, hook_vars>>

\* line 40: the membership test
ThreadTest(t) ==
    /\ threads[t].pc = "test"
    /\ threads' = [threads EXCEPT ![t].pc =
                      IF UserAbsent(sessions, threads[t].user_id)
                      THEN "create" ELSE "append"]
    /\ UNCHANGED <<bank_vars, lock, locking, hook_vars>>

\* line 41: self.sessions[user_id] = []
ThreadCreate(t) ==
    /\ threads[t].pc = "create"
    /\ sessions' = [u \in DOMAIN sessions \cup {threads[t].user_id} |->
                      IF u = threads[t].user_id THEN <<>> ELSE sessions[u]]
    /\ threads' = [threads EXCEPT ![t].pc = "append"]
    /\ UNCHANGED <<memories, call, ret, gen, pre, lock, locking, hook_vars>>

\* lines 43-48: self.sessions[user_id].append(turn), and the return; the
\* caller then gives the lock back
ThreadAppend(t) ==
    /\ threads[t].pc = "append"
    /\ sessions' = [sessions EXCEPT ![threads[t].user_id] = Append(@, threads[t].turn)]
    /\ threads' = [threads EXCEPT ![t] = [pc |-> "idle", calls |-> @.calls + 1]]
    /\ lock' = IF locking THEN NoThread ELSE lock
    /\ UNCHANGED <<memories, call, ret, gen, pre, locking, hook_vars>>

ThreadsIdle ==
    /\ threads = [t \in Threads |-> [pc |-> "idle", calls |-> 0]]
    /\ lock = NoThread

----------------------------------------------------------------------------
(* The hooks (hooks/save_and_load_context.py, post_tool_use.py,            *)
(* notification.py, stop_session.py): one process per hook invocation.     *)
(* A process reads the hook input, sets up the services, and saves its     *)
(* context: it maps its Claude session id to a Memory Bank session through *)
(* the mapping file, creating the session when the id is absent, then gets *)
(* the session, appends an event and generates memories.  Each call of a   *)
(* service or of the file system either succeeds (ok) or raises.           *)

Pids == {"p1", "p2"}
ClaudeIds == {"c1", "c2"}
SaveHooks == {"PreToolUse", "PostToolUse", "Notification", "Stop"}

\* tool names the PreToolUse hook skips
SimpleTools == {"LS", "Glob", "Grep"}

\* dict.get(key, default)
Get(d, key, default) == IF key \in DOMAIN d THEN d[key] ELSE default

NoStatus == "running"

IdleProc ==
    [pc |-> "idle", hook |-> "none", claude_session_id |-> "", tool_name |-> "",
     parsed |-> FALSE, services |-> FALSE, read_ok |-> TRUE,
     session_mapping |-> EmptyDict, calls |-> <<>>,
     status |-> NoStatus, runs |-> 0, input |-> <<>>, action |-> "",
     returned |-> "none", shown |-> <<>>]

HooksIdle ==
    /\ mapping_file = EmptyDict
    /\ memory_sessions = <<>>
    /\ procs = [p \in Pids |-> IdleProc]
    /\ context_files = EmptyDict

\* sys.exit(status)
Exit(f, status) == [f EXCEPT !.pc = "exited", !.status = status]

\* a slip: the handler of the save function lets the exception out, which
\* main answers with sys.exit(1)
OuterFailurePropagates(f) == Exit(f, 1)

\* the outer handler of a save function (save_and_load_context.py lines
\* 330-331): the function returns, and main ends with sys.exit(0)
OuterFailure(f) == Exit(f, 0)

\* a slip: the inner handler is entered only after generate_memories, so a
\* failed get_session or append_event goes on to the next call
InnerFailureGoesOn(f) ==
    IF f.pc = "generate" THEN Exit(f, 0)
    ELSE [f EXCEPT !.pc = IF f.pc = "get" THEN "append" ELSE "generate"]

\* the inner handler of a save function (lines 326-328): the rest of the
\* try block is skipped, the function returns, and main ends with sys.exit(0)
InnerFailure(f) == Exit(f, 0)

\* the handler a failed list of the agent engines reaches: the outer one in
\* the PreToolUse hook (lines 187-193), the inner one in the other hooks
EnginesFailure(f) ==
    IF f.hook = "PreToolUse" THEN OuterFailure(f) ELSE InnerFailure(f)

\* main up to the service setup: json.load(sys.stdin) and the reads of
\* hook_data; anything but a JSON object ends in main's handler, sys.exit(1)
HookStart(p, hook, stdin) ==
    /\ procs[p].pc \in {"idle", "exited"}
    /\ procs' = [procs EXCEPT ![p] =
          LET f == [IdleProc EXCEPT !.hook = hook, !.runs = procs[p].runs + 1] IN
          IF stdin.t # "obj" THEN Exit(f, 1)
          ELSE LET g == [f EXCEPT !.parsed = TRUE,
                                  !.tool_name = Get(stdin.v, "tool_name", "unknown"),
                                  !.claude_session_id =
                                      Get(stdin.v, "session_id", "default")]
               IN  IF hook = "PreToolUse" /\ g.tool_name \in SimpleTools
                   THEN Exit(g, 0)
                   ELSE [g EXCEPT !.pc = "services"]]
    /\ UNCHANGED <<bank_vars, thread_vars, mapping_file, memory_sessions, context_files>>

\* get_memory_and_session_services: the services, or (None, None) when the
\* setup raised
GetServices(p, ok) ==
    /\ procs[p].pc = "services"
    /\ procs' = [procs EXCEPT ![p].services = ok,
                              ![p].pc = IF procs[p].hook = "PreToolUse"
                                        THEN "context" ELSE "save"]
    /\ UNCHANGED <<bank_vars, thread_vars, mapping_file, memory_sessions, context_files>>

\* load_relevant_context and the display of what it found: nothing without a
\* memory service, nothing when the retrieval raised (both handlers return
\* what was gathered); no outcome changes what main does next
LoadRelevantContext(p, ok) ==
    /\ procs[p].pc = "context"
    /\ procs' = [procs EXCEPT ![p].pc = "save"]
    /\ UNCHANGED <<bank_vars, thread_vars, mapping_file, memory_sessions, context_files>>

\* the entry of the save function: it returns at once without services
SaveEnter(p) ==
    /\ procs[p].pc = "save"
    /\ procs' = [procs EXCEPT ![p] =
          IF ~procs[p].services THEN Exit(@, 0)
          ELSE [@ EXCEPT !.pc = IF procs[p].hook = "PreToolUse"
                                THEN "engines" ELSE "load"]]
    /\ UNCHANGED <<bank_vars, thread_vars, mapping_file, memory_sessions, context_files>>

\* list(client.agent_engines.list()) and agent_engines[0]: before the
\* mapping in the PreToolUse hook, after it in the others
ListEngines(p, ok) ==
    /\ procs[p].pc = "engines"
    /\ procs' = [procs EXCEPT ![p] =
          IF ~ok THEN EnginesFailure(@)
          ELSE [@ EXCEPT !.pc = IF procs[p].hook = "PreToolUse"
                                THEN "load" ELSE "get"]]
    /\ UNCHANGED <<bank_vars, thread_vars, mapping_file, memory_sessions, context_files>>

\* load_session_mapping: the content of the file, {} when reading it raised
LoadSessionMapping(file, ok) == IF ok THEN file ELSE EmptyDict

\* a slip: a session is created on every invocation
AlwaysUnmapped(session_mapping, claude_session_id) == TRUE

\* claude_session_id not in session_mapping
Unmapped(session_mapping, claude_session_id) ==
    claude_session_id \notin DOMAIN session_mapping

\* where the save function goes once memory_session_id is known
AfterMapping(f) ==
    [f EXCEPT !.pc = IF f.hook = "PreToolUse" THEN "get" ELSE "engines"]

LoadMapping(p, ok) ==
    /\ procs[p].pc = "load"
    /\ procs' = [procs EXCEPT ![p] =
          LET f == [@ EXCEPT !.read_ok = ok,
                             !.session_mapping = LoadSessionMapping(mapping_file, ok)]
          IN  IF Unmapped(f.session_mapping, f.claude_session_id)
              THEN [f EXCEPT !.pc = "create"]
              ELSE AfterMapping(f)]
    /\ UNCHANGED <<bank_vars, thread_vars, mapping_file, memory_sessions, context_files>>

\* the id the service gives its next session
NextSessionId == Len(memory_sessions) + 1

\* session_mapping[claude_session_id] = memory_session.id
Mapped(session_mapping, claude_session_id, id) ==
    [c \in DOMAIN session_mapping \cup {claude_session_id} |->
        IF c = claude_session_id THEN id ELSE session_mapping[c]]

\* session_service.create_session(app_name, user_id=claude_session_id) and
\* the new entry of the mapping held in memory
CreateSession(p, app_name, ok) ==
    /\ procs[p].pc = "create"
    /\ IF ok
       THEN /\ memory_sessions' = Append(memory_sessions,
                                 [id |-> NextSessionId, app_name |-> app_name,
                                  user_id |-> procs[p].claude_session_id])
            /\ procs' = [procs EXCEPT ![p].pc = "savemap",
                            ![p].session_mapping =
                                Mapped(@, procs[p].claude_session_id, NextSessionId)]
       ELSE /\ UNCHANGED memory_sessions
            /\ procs' = [procs EXCEPT ![p] = OuterFailure(@)]
    /\ UNCHANGED <<bank_vars, thread_vars, mapping_file, context_files>>

\* save_session_mapping: the file is rewritten with the mapping held in
\* memory; a failure is printed and nothing else
SaveMapping(p, ok) ==
    /\ procs[p].pc = "savemap"
    /\ mapping_file' = IF ok THEN procs[p].session_mapping ELSE mapping_file
    /\ procs' = [procs EXCEPT ![p] = AfterMapping(@)]
    /\ UNCHANGED <<bank_vars, thread_vars, memory_sessions, context_files>>

\* the session the process saves into
MemorySessionId(f) == f.session_mapping[f.claude_session_id]

\* a call of the inner try block made and answered
Called(f, op, next) ==
    [f EXCEPT !.calls = Append(@, [op |-> op, session |-> MemorySessionId(f)]),
              !.pc = next]

\* session_service.get_session(app_name, user_id, session_id)
GetSession(p, ok) ==
    /\ procs[p].pc = "get"
    /\ procs' = [procs EXCEPT ![p] =
          IF ok THEN Called(@, "get_session", "append") ELSE InnerFailure(@)]
    /\ UNCHANGED <<bank_vars, thread_vars, mapping_file, memory_sessions, context_files>>

\* sessions_client.append_event(name=session_name, event=event)
AppendEvent(p, ok) ==
    /\ procs[p].pc = "append"
    /\ procs' = [procs EXCEPT ![p] =
          IF ok THEN Called(@, "append_event", "generate") ELSE InnerFailure(@)]
    /\ UNCHANGED <<bank_vars, thread_vars, mapping_file, memory_sessions, context_files>>

\* client.agent_engines.generate_memories(...), the end of the save function
\* and main's sys.exit(0)
GenerateMemories(p, ok) ==
    /\ procs[p].pc = "generate"
    /\ procs' = [procs EXCEPT ![p] =
          IF ok THEN Exit(Called(@, "generate_memories", "exited"), 0)
          ELSE InnerFailure(@)]
    /\ UNCHANGED <<bank_vars, thread_vars, mapping_file, memory_sessions, context_files>>

\* the steps of a started hook process; service_ok and file_ok are the
\* outcomes the calls of the services and of the mapping file may have
HookStep(p, service_ok, file_ok) ==
    \/ \E ok \in service_ok : GetServices(p, ok)
    \/ \E ok \in service_ok : LoadRelevantContext(p, ok)
    \/ SaveEnter(p)
    \/ \E ok \in service_ok : ListEngines(p, ok)
    \/ \E ok \in file_ok : LoadMapping(p, ok)
    \/ \E ok \in service_ok : CreateSession(p, "claude-code", ok)
    \/ \E ok \in file_ok : SaveMapping(p, ok)
    \/ \E ok \in service_ok : GetSession(p, ok)
    \/ \E ok \in service_ok : AppendEvent(p, ok)
    \/ \E ok \in service_ok : GenerateMemories(p, ok)

\* no process is in the middle of an invocation
Quiet == \A p \in Pids : procs[p].pc \in {"idle", "exited"}

----------------------------------------------------------------------------
(* The command memory-bank-integration.py <action> <claude_session_id> ...  *)
(* A process runs main on its arguments; failure names the call that       *)
(* raises in this run ("none": no call raises), every call before it       *)
(* succeeding.  A text is a sequence of characters here, so that the       *)
(* substring test, lower() and split() are computed on it.                 *)

TopN == 10

\* str.lower() on the letters the texts use
LowerChar(c) ==
    CASE c = "F" -> "f" [] c = "W" -> "w" [] c = "E" -> "e" [] OTHER -> c

Lower(text) == [i \in 1..Len(text) |-> LowerChar(text[i])]

\* str.split(): the maximal runs of characters other than the blank
RECURSIVE Split(_)
Split(text) ==
    IF text = <<>> THEN <<>>
    ELSE IF Head(text) = " " THEN Split(Tail(text))
    ELSE LET blanks == {i \in 1..Len(text) : text[i] = " "}
             end == IF blanks = {} THEN Len(text) + 1
                    ELSE CHOOSE i \in blanks : \A j \in blanks : i <= j
         IN  <<SubSeq(text, 1, end - 1)>> \o Split(SubSeq(text, end, Len(text)))

\* needle in text
Contains(needle, text) ==
    \E i \in 0..(Len(text) - Len(needle)) : SubSeq(text, i + 1, i + Len(needle)) = needle

DefaultQueries ==
    <<<<"e", "d", "i", "t">>,
      <<"f", "i", "l", "e">>,
      <<"p", "r", "o", "j", "e", "c", "t">>,
      <<"t", "o", "o", "l">>,
      <<"c", "o", "m", "m", "a", "n", "d">>,
      <<"r", "e", "c", "e", "n", "t">>,
      <<"w", "o", "r", "k">>>>

\* the words of the hint longer than 3 characters, then the default queries
QueriesOf(context_hint) ==
    (IF context_hint # <<>>
     THEN SelectSeq(Split(Lower(context_hint)), LAMBDA word : Len(word) > 3)
     ELSE <<>>) \o DefaultQueries

\* the queries of the list that occur in the fact, each counted as often as
\* the list holds it
MatchedQueries(fact, queries) ==
    SelectSeq(queries, LAMBDA query : Contains(Lower(query), Lower(fact)))

\* relevance_score + 0.5, in halves
ScoreHalves(fact, queries) == 2 * Len(MatchedQueries(fact, queries)) + 1

ScoredMemory(fact, queries) ==
    [fact |-> fact, score |-> ScoreHalves(fact, queries),
     matched_queries |-> MatchedQueries(fact, queries)]

\* a slip: reverse=True is missing
RECURSIVE InsertByScoreAscending(_, _)
InsertByScoreAscending(sorted, memory) ==
    IF sorted = <<>> THEN <<memory>>
    ELSE IF Head(sorted).score <= memory.score
    THEN <<Head(sorted)>> \o InsertByScoreAscending(Tail(sorted), memory)
    ELSE <<memory>> \o sorted

\* memory put into a list sorted by descending score, behind the memories
\* of its score (the sort is stable)
RECURSIVE InsertByScore(_, _)
InsertByScore(sorted, memory) ==
    IF sorted = <<>> THEN <<memory>>
    ELSE IF Head(sorted).score >= memory.score
    THEN <<Head(sorted)>> \o InsertByScore(Tail(sorted), memory)
    ELSE <<memory>> \o sorted

\* scored_memories.sort(key=score, reverse=True)
RECURSIVE SortByScore(_)
SortByScore(scored) ==
    IF scored = <<>> THEN <<>>
    ELSE InsertByScore(SortByScore(SubSeq(scored, 1, Len(scored) - 1)),
                       scored[Len(scored)])

\* scored_memories[:10]
TopMemories(scored) == SubSeq(scored, 1, Min(TopN, Len(scored)))

\* retrieve_relevant_memories: what it returns and the context files after it
CommandRetrieve(files, claude_session_id, context_hint, retrieved, failure) ==
    IF failure \in {"client", "no_engines", "retrieve"}
    THEN [returned |-> "False", files |-> files]
    ELSE IF retrieved = <<>> THEN [returned |-> "False", files |-> files]
    ELSE LET queries == QueriesOf(context_hint)
             scored == [i \in 1..Len(retrieved) |-> ScoredMemory(retrieved[i], queries)]
             top == TopMemories(SortByScore(scored))
         IN  IF failure = "write" THEN [returned |-> "False", files |-> files]
             ELSE [returned |-> "True",
                   files |-> Mapped(files, claude_session_id, top)]

\* store_conversation_data: what it returns, the mapping file and the
\* sessions of the service after it, and the event it appended
CommandStore(file, sessions_made, claude_session_id, failure) ==
    LET unchanged == [file |-> file, memory_sessions |-> sessions_made, calls |-> <<>>]
    IN
    IF failure = "client" THEN unchanged @@ [returned |-> "False"]
    ELSE IF failure = "no_engines" THEN unchanged @@ [returned |-> "None"]
    ELSE IF failure = "read" THEN unchanged @@ [returned |-> "False"]
    ELSE IF Unmapped(file, claude_session_id) /\ failure = "create"
    THEN unchanged @@ [returned |-> "False"]
    ELSE LET id == Len(sessions_made) + 1
             made == IF Unmapped(file, claude_session_id)
                     THEN Append(sessions_made,
                                 [id |-> id, app_name |-> "claude-code-multi-agent",
                                  user_id |-> claude_session_id])
                     ELSE sessions_made
             session_mapping == IF Unmapped(file, claude_session_id)
                                THEN Mapped(file, claude_session_id, id)
                                ELSE file
         IN
    IF Unmapped(file, claude_session_id) /\ failure = "write"
    THEN [returned |-> "False", file |-> file, memory_sessions |-> made,
          calls |-> <<>>]
    ELSE IF failure = "append"
    THEN [returned |-> "False", file |-> session_mapping, memory_sessions |-> made,
          calls |-> <<>>]
    ELSE [returned |-> "True", file |-> session_mapping, memory_sessions |-> made,
          calls |-> <<[op |-> "append_event",
                       session |-> session_mapping[claude_session_id]]>>]

\* generate_memories: what it returns and the call it made
CommandGenerate(file, claude_session_id, failure) ==
    IF failure \in {"client", "no_engines", "read"}
    THEN [returned |-> "False", calls |-> <<>>]
    ELSE IF claude_session_id \notin DOMAIN file
    THEN [returned |-> "False", calls |-> <<>>]
    ELSE IF failure = "generate" THEN [returned |-> "False", calls |-> <<>>]
    ELSE [returned |-> "True",
          calls |-> <<[op |-> "generate_memories", session |-> file[claude_session_id]]>>]

\* a slip: sys.exit(0) whatever the action returned
ExitStatusZero(returned) == 0

\* sys.exit(0 if success else 1)
ExitStatus(returned) == IF returned = "True" THEN 0 ELSE 1

\* the process is given its arguments (sys.argv without the script name),
\* and what the services will answer in this run
CommandStart(p, args, failure, retrieved) ==
    /\ procs[p].pc \in {"idle", "exited"}
    /\ procs' = [procs EXCEPT ![p] =
          [IdleProc EXCEPT !.hook = "command", !.pc = "main",
                           !.runs = procs[p].runs + 1,
                           !.input = [args |-> args, failure |-> failure,
                                      retrieved |-> retrieved]]]
    /\ UNCHANGED <<bank_vars, thread_vars, mapping_file, memory_sessions,
                   context_files>>

\* main
CommandMain(p) ==
    /\ procs[p].pc = "main"
    /\ LET args == procs[p].input.args
           failure == procs[p].input.failure
           usage == [procs[p] EXCEPT !.pc = "exited", !.status = 1]
       IN
       IF Len(args) < 2
       THEN /\ procs' = [procs EXCEPT ![p] = usage]
            /\ UNCHANGED <<mapping_file, memory_sessions, context_files>>
       ELSE LET f == [procs[p] EXCEPT !.pc = "exited", !.action = args[1],
                                     !.claude_session_id = args[2]]
            IN
       CASE args[1] = "store" ->
              IF Len(args) < 4
              THEN /\ procs' = [procs EXCEPT ![p] = [f EXCEPT !.status = 1]]
                   /\ UNCHANGED <<mapping_file, memory_sessions, context_files>>
              ELSE LET r == CommandStore(mapping_file, memory_sessions, args[2], failure)
                   IN  /\ mapping_file' = r.file
                       /\ memory_sessions' = r.memory_sessions
                       /\ procs' = [procs EXCEPT ![p] =
                              [f EXCEPT !.returned = r.returned, !.calls = r.calls,
                                        !.status = ExitStatus(r.returned)]]
                       /\ UNCHANGED context_files
         [] args[1] = "generate" ->
              LET r == CommandGenerate(mapping_file, args[2], failure)
              IN  /\ procs' = [procs EXCEPT ![p] =
                         [f EXCEPT !.returned = r.returned, !.calls = r.calls,
                                   !.status = ExitStatus(r.returned)]]
                  /\ UNCHANGED <<mapping_file, memory_sessions, context_files>>
         [] args[1] = "retrieve" ->
              LET r == CommandRetrieve(context_files, args[2],
                                       IF Len(args) > 2 THEN args[3] ELSE <<>>,
                                       procs[p].input.retrieved, failure)
              IN  /\ context_files' = r.files
                  /\ procs' = [procs EXCEPT ![p] =
                         [f EXCEPT !.returned = r.returned,
                                   !.status = ExitStatus(r.returned)]]
                  /\ UNCHANGED <<mapping_file, memory_sessions>>
         [] OTHER ->
              /\ procs' = [procs EXCEPT ![p] = [f EXCEPT !.status = 1]]
              /\ UNCHANGED <<mapping_file, memory_sessions, context_files>>
    /\ UNCHANGED <<bank_vars, thread_vars>>

----------------------------------------------------------------------------
(* The hook hooks/load_context.py: main reads the hook input, derives the  *)
(* context queries from the tool, searches the Memory Bank once per query, *)
(* and shows and writes what it found.                                     *)

\* os.path.basename(path)
Basename(path) ==
    LET slashes == {i \in 1..Len(path) : path[i] = "/"}
    IN  IF slashes = {} THEN path
        ELSE SubSeq(path, (CHOOSE i \in slashes : \A j \in slashes : j <= i) + 1,
                    Len(path))

\* text.endswith(suffix)
EndsWith(text, suffix) ==
    /\ Len(suffix) <= Len(text)
    /\ SubSeq(text, Len(text) - Len(suffix) + 1, Len(text)) = suffix

\* the language context of an edited file
LanguageContexts(file_path) ==
    IF EndsWith(file_path, <<".", "p", "y">>) THEN << <<"python development">> >>
    ELSE IF EndsWith(file_path, <<".", "j", "s">>) \/ EndsWith(file_path, <<".", "t", "s">>)
    THEN << <<"javascript typescript development">> >>
    ELSE IF EndsWith(file_path, <<".", "m", "d">>) THEN << <<"documentation writing">> >>
    ELSE <<>>

\* get_context_from_tool: the queries, each as the parts of its f-string;
\* raised stands for the IndexError of command.split()[0] on a command
\* without a word
GetContextFromTool(tool_name, tool_input) ==
    LET file_path == Get(tool_input, "file_path", <<>>)
        command == Get(tool_input, "command", <<>>)
        general == << <<"project", "cwd">>, <<"recent work">> >>
        done(contexts) == [raised |-> FALSE, contexts |-> contexts \o general]
    IN  CASE tool_name = "Edit" ->
               done(IF file_path # <<>>
                    THEN << <<"editing", Basename(file_path)>>, <<"file", file_path>> >>
                             \o LanguageContexts(file_path)
                    ELSE <<>>)
          [] tool_name = "Write" ->
               done(IF file_path # <<>>
                    THEN << <<"creating", Basename(file_path)>>,
                            <<"new file", file_path>> >>
                    ELSE <<>>)
          [] tool_name = "Bash" ->
               IF command = <<>> THEN done(<<>>)
               ELSE IF Split(command) = <<>> THEN [raised |-> TRUE, contexts |-> <<>>]
               ELSE done(<< <<"running", Split(command)[1]>>, <<"command", command>> >>)
          [] tool_name = "Read" ->
               done(IF file_path # <<>>
                    THEN << <<"reading", Basename(file_path)>>,
                            <<"file content", file_path>> >>
                    ELSE <<>>)
          [] OTHER -> done(<<>>)

\* search_memory_bank: the memories found, [] when the search raised
SearchMemoryBank(outcome) == IF outcome = "failed" THEN <<>> ELSE outcome

\* the searches of main's loop, the first query answered with first and
\* every other query with rest
RECURSIVE AllMemories(_, _, _)
AllMemories(n, first, rest) ==
    IF n = 0 THEN <<>>
    ELSE AllMemories(n - 1, first, rest)
             \o SearchMemoryBank(IF n = 1 THEN first ELSE rest)

\* the loop over all_memories: one memory per content, the first of the
\* highest score, in the order the contents were first seen
RECURSIVE UniqueMemories(_)
UniqueMemories(all) ==
    IF all = <<>> THEN <<>>
    ELSE LET before == UniqueMemories(SubSeq(all, 1, Len(all) - 1))
             mem == all[Len(all)]
             same == {i \in 1..Len(before) : before[i].content = mem.content}
         IN  IF same = {} THEN Append(before, mem)
             ELSE [i \in 1..Len(before) |->
                     IF i \in same /\ mem.score > before[i].score THEN mem
                     ELSE before[i]]

\* the process is given its standard input, what the searches will answer,
\* and whether the context file can be written
LoadContextStart(p, stdin, first, rest, write_ok) ==
    /\ procs[p].pc \in {"idle", "exited"}
    /\ procs' = [procs EXCEPT ![p] =
          [IdleProc EXCEPT !.hook = "load_context", !.pc = "main",
                           !.runs = procs[p].runs + 1,
                           !.input = [stdin |-> stdin, first |-> first, rest |-> rest,
                                      write_ok |-> write_ok]]]
    /\ UNCHANGED <<bank_vars, thread_vars, mapping_file, memory_sessions,
                   context_files>>

\* main of load_context.py
LoadContextMain(p) ==
    /\ procs[p].pc = "main"
    /\ LET in == procs[p].input
           f == procs[p]
       IN
       IF in.stdin.t # "obj"
       THEN /\ procs' = [procs EXCEPT ![p] = Exit(f, 1)]
            /\ UNCHANGED context_files
       ELSE LET tool_name == Get(in.stdin.v, "tool_name", "unknown")
                tool_input == Get(in.stdin.v, "tool_input", EmptyDict)
                g == [f EXCEPT !.parsed = TRUE, !.tool_name = tool_name,
                               !.claude_session_id =
                                   Get(in.stdin.v, "session_id", "default")]
                context == GetContextFromTool(tool_name, tool_input)
                sorted_memories ==
                    SortByScore(UniqueMemories(
                        AllMemories(Len(context.contexts), in.first, in.rest)))
            IN
       IF tool_name \in {"LS", "Glob"}
       THEN /\ procs' = [procs EXCEPT ![p] = Exit(g, 0)]
            /\ UNCHANGED context_files
       ELSE IF context.raised
       THEN /\ procs' = [procs EXCEPT ![p] = Exit(g, 1)]
            /\ UNCHANGED context_files
       ELSE IF sorted_memories = <<>>
       THEN /\ procs' = [procs EXCEPT ![p] =
                   Exit([g EXCEPT !.calls = context.contexts], 0)]
            /\ UNCHANGED context_files
       ELSE LET h == [g EXCEPT !.calls = context.contexts,
                               !.shown = SubSeq(sorted_memories, 1,
                                                Min(3, Len(sorted_memories)))]
            IN  IF in.write_ok
                THEN /\ context_files' =
                           Mapped(context_files, "current_context.md",
                                  SubSeq(sorted_memories, 1,
                                         Min(5, Len(sorted_memories))))
                     /\ procs' = [procs EXCEPT ![p] = Exit(h, 0)]
                ELSE /\ UNCHANGED context_files
                     /\ procs' = [procs EXCEPT ![p] = Exit(h, 1)]
    /\ UNCHANGED <<bank_vars, thread_vars, mapping_file, memory_sessions>>

----------------------------------------------------------------------------
(* Specifications *)

InitBank ==
    /\ sessions = EmptyDict
    /\ memories = EmptyDict
    /\ call = [op |-> "__init__"]
    /\ ret = [kind |-> "return", line |-> 36, value |-> None]
    /\ gen = <<>>
    /\ pre = [sessions |-> EmptyDict, memories |-> EmptyDict]

Init ==
    /\ InitBank
    /\ ThreadsIdle
    /\ locking = FALSE
    /\ HooksIdle

\* Two users and two sessions, turns of one role, one response of each kind
Next ==
    \/ \E user_id \in UserIds, session_id \in SessionIds, role \in {"user"},
          content \in Contents :
          /\ Total(sessions) < MaxTurns
          /\ AddSessionMessage(user_id, session_id, role, content)
    \/ \E user_id \in UserIds, session_id \in SessionIds :
          /\ ExtractMemories(user_id, session_id, FewExtractResponses)
          /\ Total(memories') <= MaxFacts
    \/ \E user_id \in UserIds, query \in Queries :
          SearchMemories(user_id, query, FewSearchResponses)
    \/ \E user_id \in UserIds : GetMemorySummary(user_id)

Spec == Init /\ [][Next]_vars

\* One user and one session, turns of both roles, every shape of response
OneUser == "u1"
OneSession == "s1"

NextOne ==
    \/ \E role \in Roles, content \in Contents :
          /\ Total(sessions) < MaxOneTurns
          /\ AddSessionMessage(OneUser, OneSession, role, content)
    \/ /\ ExtractMemories(OneUser, OneSession, ExtractResponses(MaxItems))
       /\ Total(memories') <= MaxOneFacts
    \/ \E query \in Queries :
          SearchMemories(OneUser, query,
                         SearchResponses(MaxResults) \cup {EchoResponse(OneUser)})
    \/ GetMemorySummary(OneUser)

SpecOne == Init /\ [][NextOne]_vars

\* add_session_message alone, with an empty and a non-empty user_id and with
\* an empty session_id, a role outside user/assistant and an empty text
AddUserIds == {"", "u1"}
AddSessionIds == {"", "s1"}
AddRoles == {"user", "assistant", "system"}
AddContents == {<<>>, <<"hello">>}

NextAdd ==
    \E user_id \in AddUserIds, session_id \in AddSessionIds, role \in AddRoles,
       content \in AddContents :
       /\ Total(sessions) < MaxAddTurns
       /\ AddSessionMessage(user_id, session_id, role, content)

SpecAdd == Init /\ [][NextAdd]_vars

\* One user and one session, the generation call answering with objects whose
\* texts hold a fence marker or that lack the keys asked for, raw and fenced
FenceFact ==
    [fact |-> <<"use", Fence, "blocks">>, context |-> <<"chat">>, importance |-> 5]
NoteFact == [note |-> <<"misc">>]

TextExtractBodies ==
    {JList(<<JObj(FenceFact)>>), JList(<<JObj(PizzaFact), JObj(NoteFact)>>)}

TextExtractResponses ==
    {Raw(b) : b \in TextExtractBodies} \cup {Fenced(b) : b \in TextExtractBodies}

TextSearchBodies ==
    {JList(<<JObj(Scored(Stamp(FenceFact, OneSession), 7))>>)}

TextSearchResponses ==
    {Raised} \cup {Raw(b) : b \in TextSearchBodies}
             \cup {Fenced(b) : b \in TextSearchBodies}

NextText ==
    \/ \E content \in Contents :
          /\ Total(sessions) < MaxTextTurns
          /\ AddSessionMessage(OneUser, OneSession, "user", content)
    \/ /\ ExtractMemories(OneUser, OneSession, TextExtractResponses)
       /\ Total(memories') <= MaxTextFacts
    \/ \E query \in Queries :
          SearchMemories(OneUser, query, TextSearchResponses)
    \/ GetMemorySummary(OneUser)

SpecText == Init /\ [][NextText]_vars

\* One user and two sessions, turns of both roles, few responses
SessionExtractResponses == {Raised, Raw(JList(<<JObj(PizzaFact)>>))}

NextSessions ==
    \/ \E session_id \in SessionIds, role \in Roles, content \in Contents :
          /\ Total(sessions) < MaxSessionTurns
          /\ AddSessionMessage(OneUser, session_id, role, content)
    \/ \E session_id \in SessionIds :
          /\ ExtractMemories(OneUser, session_id, SessionExtractResponses)
          /\ Total(memories') <= MaxSessionFacts
    \/ \E query \in Queries :
          SearchMemories(OneUser, query, FewSearchResponses)
    \/ GetMemorySummary(OneUser)

SpecSessions == Init /\ [][NextSessions]_vars

\* Two users and two sessions, few turns and facts, few responses
NextPair ==
    \/ \E user_id \in UserIds, session_id \in SessionIds, content \in Contents :
          /\ Total(sessions) < MaxPairTurns
          /\ AddSessionMessage(user_id, session_id, "user", content)
    \/ \E user_id \in UserIds, session_id \in SessionIds :
          /\ ExtractMemories(user_id, session_id, SessionExtractResponses)
          /\ Total(memories') <= MaxPairFacts
    \/ \E user_id \in UserIds, query \in Queries :
          SearchMemories(user_id, query, FewSearchResponses)
    \/ \E user_id \in UserIds : GetMemorySummary(user_id)

SpecPair == Init /\ [][NextPair]_vars

\* Two callers of add_session_message for one user, their statements
\* interleaved, either all calls under one lock or none
InitThreads ==
    /\ InitBank
    /\ ThreadsIdle
    /\ locking \in BOOLEAN
    /\ HooksIdle

NextThreads ==
    \/ \E t \in Threads, session_id \in SessionIds, role \in Roles,
          content \in Contents :
          ThreadCall(t, OneUser, session_id, role, content)
    \/ \E t \in Threads : ThreadTest(t)
    \/ \E t \in Threads : ThreadCreate(t)
    \/ \E t \in Threads : ThreadAppend(t)

SpecThreads == InitThreads /\ [][NextThreads]_vars

\* Hook invocations one after another, of every hook, every call of a
\* service or of the mapping file succeeding or raising
HookInputs ==
    {Garbage, JList(<<>>), JObj(EmptyDict),
     JObj([tool_name |-> "LS", session_id |-> "c1"]),
     JObj([tool_name |-> "Edit", session_id |-> "c1"]),
     JObj([tool_name |-> "Bash", session_id |-> "c2"])}

HookPid == "p1"

NextHooks ==
    \/ \E hook \in SaveHooks, stdin \in HookInputs :
          /\ procs[HookPid].runs < MaxHookRuns
          /\ HookStart(HookPid, hook, stdin)
    \/ HookStep(HookPid, BOOLEAN, BOOLEAN)

SpecHooks == Init /\ [][NextHooks]_vars

\* Hook and command invocations one after another, the mapping file
\* readable and writable, the services succeeding or raising
ReuseInputs ==
    {JObj([tool_name |-> "Edit", session_id |-> c]) : c \in ClaudeIds}

ReuseArgs ==
    {<<"store", c, "user", <<"h", "i">> >> : c \in ClaudeIds}
        \cup {<<"generate", c>> : c \in ClaudeIds}

ReuseFailures == {"none", "client", "create", "append", "generate"}

NextReuse ==
    \/ \E hook \in SaveHooks, stdin \in ReuseInputs :
          /\ procs[HookPid].runs < MaxReuseRuns
          /\ HookStart(HookPid, hook, stdin)
    \/ HookStep(HookPid, BOOLEAN, {TRUE})
    \/ \E args \in ReuseArgs, failure \in ReuseFailures :
          /\ procs[HookPid].runs < MaxReuseRuns
          /\ CommandStart(HookPid, args, failure, <<>>)
    \/ CommandMain(HookPid)

SpecReuse == Init /\ [][NextReuse]_vars

\* Two hook processes whose steps interleave, every call succeeding
RaceHooks == {"PreToolUse", "PostToolUse", "Notification", "Stop"}

NextRace ==
    \/ \E p \in Pids, hook \in RaceHooks, stdin \in ReuseInputs :
          /\ procs[p].runs < MaxRaceRuns
          /\ HookStart(p, hook, stdin)
    \/ \E p \in Pids : HookStep(p, {TRUE}, {TRUE})

SpecRace == Init /\ [][NextRace]_vars

\* Command invocations one after another: every action, too few arguments,
\* an unknown action, every failure
CommandArgs ==
    {<<>>, <<"store">>, <<"bogus", "c1">>, <<"store", "c1">>,
     <<"store", "c1", "user">>, <<"retrieve", "c1">>, <<"retrieve", "c1", <<"e", "d", "i", "t">> >>}
        \cup {<<"store", c, "user", <<"h", "i">> >> : c \in ClaudeIds}
        \cup {<<"generate", c>> : c \in ClaudeIds}

CommandFailures ==
    {"none", "client", "no_engines", "read", "create", "write", "append",
     "generate", "retrieve"}

NextCommand ==
    \/ \E args \in CommandArgs, failure \in CommandFailures,
          retrieved \in {<<>>, << <<"a", " ", "f", "i", "l", "e">> >>} :
          /\ procs[HookPid].runs < MaxCommandRuns
          /\ CommandStart(HookPid, args, failure, retrieved)
    \/ CommandMain(HookPid)

SpecCommand == Init /\ [][NextCommand]_vars

\* retrieve_relevant_memories on the lists the service may return: runs of
\* one fact followed by runs of another, with and without a hint
Facts ==
    {<<"E", "d", "i", "t", " ", "F", "i", "l", "e">>,
     <<"n", "e", "t", "w", "o", "r", "k">>, <<"x", " ", "y">>}

RetrievedLists(n) ==
    {Repeat(a, i) \o Repeat(b, j) :
        <<a, b, i, j>> \in {t \in Facts \X Facts \X (0..n) \X (0..n) : t[3] + t[4] <= n}}

RetrieveArgs ==
    {<<"retrieve", "c1">>,
     <<"retrieve", "c1", <<"F", "I", "L", "E", " ", "u", "p">> >>,
     <<"retrieve", "c1",
       <<"m", "y", " ", "w", "o", "r", "k", " ", "f", "i", "l", "e">> >>}

InitRetrieve ==
    /\ InitBank
    /\ ThreadsIdle
    /\ locking = FALSE
    /\ mapping_file = EmptyDict
    /\ memory_sessions = <<>>
    /\ context_files = EmptyDict
    /\ \E args \in RetrieveArgs, failure \in {"none", "write"},
          retrieved \in RetrievedLists(MaxRetrieved) :
          procs = [p \in Pids |->
                     IF p = HookPid
                     THEN [IdleProc EXCEPT !.hook = "command", !.pc = "main", !.runs = 1,
                                           !.input = [args |-> args, failure |-> failure,
                                                      retrieved |-> retrieved]]
                     ELSE IdleProc]

NextRetrieve == CommandMain(HookPid)

SpecRetrieve == InitRetrieve /\ [][NextRetrieve]_vars

\* Invocations of the load_context hook: every tool, file paths and
\* commands that are absent, empty, blank or not, every outcome of the search
ToolInputs ==
    {EmptyDict, [file_path |-> <<>>], [file_path |-> <<"a", ".", "p", "y">>],
     [file_path |-> <<"d", "/", "b", ".", "m", "d">>], [command |-> <<>>], [command |-> <<" ", " ">>],
     [command |-> <<"l", "s", " ", "-", "l">>]}

LoadInputs ==
    {Garbage, JObj(EmptyDict)}
        \cup {JObj([tool_name |-> tool_name, tool_input |-> tool_input,
                    session_id |-> "c1"]) :
                 tool_name \in {"Edit", "Write", "Bash", "Read", "LS", "Task"},
                 tool_input \in ToolInputs}

SearchOutcomes ==
    {"failed", <<>>, <<[content |-> <<"t", "a", "b", "s">>, score |-> 2]>>,
     <<[content |-> <<"n", "e", "x", "t">>, score |-> 1],
       [content |-> <<"t", "a", "b", "s">>, score |-> 3]>>}

NextLoad ==
    \/ \E stdin \in LoadInputs, first \in SearchOutcomes, rest \in SearchOutcomes,
          write_ok \in BOOLEAN :
          /\ procs[HookPid].runs < MaxLoadRuns
          /\ LoadContextStart(HookPid, stdin, first, rest, write_ok)
    \/ LoadContextMain(HookPid)

SpecLoad == Init /\ [][NextLoad]_vars

----------------------------------------------------------------------------
(* Properties *)

\* the call observed in this state
Extracting == call.op = "extract_memories"
Searching == call.op = "search_memories"
Adding == call.op = "add_session_message"

\* the facts of the call's user before and after the call
FactsBefore == ListOf(pre.memories, call.user_id)
FactsAfter == ListOf(memories, call.user_id)
TurnsBefore == ListOf(pre.sessions, call.user_id)

\* the generation call was made and its text did not parse
Unparseable ==
    IF gen = <<>> THEN FALSE
    ELSE IF gen[1].response.raises THEN FALSE
    ELSE ~ParseJson(gen[1].response).ok

\* C1: when extract_memories succeeds (returns at line 108) with N parsed
\* items, the user's fact list is exactly N longer than before the call and
\* each of the N appended facts carries the session_id argument, whatever
\* session_id the generated object carried.
C1_ExtractAppendsStamped ==
    (Extracting /\ ret.line = 108) =>
        LET n == Len(IterItems(ParseJson(gen[1].response).value))
        IN  /\ Len(FactsAfter) = Len(FactsBefore) + n
            /\ \A i \in 1..n :
                  FactsAfter[Len(FactsBefore) + i].session_id = call.session_id

\* a successful extraction of two objects, one of them carrying another
\* session_id, onto a list that already held facts
C1_Witness ==
    /\ Extracting
    /\ ret.line = 108
    /\ FactsBefore # <<>>
    /\ ParseJson(gen[1].response).value = JList(<<JObj(PizzaFact), JObj(AisleFact)>>)
    /\ AisleFact.session_id # call.session_id

\* C2: whenever extract_memories ends on its failure path (line 112), the
\* user's fact list is the one it was before the call.
C2_FailedExtractionUnchanged ==
    (Extracting /\ ret.line = 112) => FactsAfter = FactsBefore

\* C3: extract_memories and search_memories return normally and the value
\* returned is a list, whatever the generation call did.
C3_AlwaysReturnsList ==
    (Extracting \/ Searching) => (ret.kind = "return" /\ ret.value.t = "list")

\* C4: when the generation output parses as a list, search_memories returns
\* at most 5 items and no more items than the user's fact list holds.
C4_SearchAtMostFive ==
    (Searching /\ ret.line = 144 /\ ret.value.t = "list") =>
        /\ Len(ret.value.v) <= 5
        /\ Len(ret.value.v) <= Len(FactsAfter)

\* C5: when the generation response does not parse and the user has facts,
\* search_memories returns a list of at most 3 items and does not raise.
C5_MalformedSearchAtMostThree ==
    (Searching /\ Unparseable /\ FactsBefore # <<>>) =>
        /\ ret.kind = "return"
        /\ ret.value.t = "list"
        /\ Len(ret.value.v) <= 3

\* an unparseable answer to a search over more than three facts
C5_Witness ==
    /\ Searching
    /\ Unparseable
    /\ Len(FactsBefore) > 3

\* C6: on parse failure with n >= 1 stored facts, search_memories returns
\* exactly the first min(3, n) stored facts, in order and as stored (no key
\* added), so never an empty list.
C6_FallbackIsFirstThree ==
    (Searching /\ Unparseable /\ FactsBefore # <<>>) =>
        LET k == IF Len(FactsBefore) < 3 THEN Len(FactsBefore) ELSE 3
        IN  /\ ret.value.t = "list"
            /\ Len(ret.value.v) = k
            /\ k >= 1
            /\ \A i \in 1..k : ret.value.v[i] = JObj(FactsBefore[i])
            /\ FactsAfter = FactsBefore

\* an unparseable fenced answer to a search over four facts whose first and
\* last differ
C6_Witness ==
    /\ Searching
    /\ Unparseable
    /\ gen[1].response.fence = "json"
    /\ Len(FactsBefore) = 4
    /\ FactsBefore[1] # FactsBefore[4]
    /\ "relevance_score" \notin DOMAIN ret.value.v[1].v

\* the call's user had no turn with the call's session_id
NoTurnsOfSession ==
    \A i \in 1..Len(TurnsBefore) : TurnsBefore[i].session_id # call.session_id

\* C7: for a user with no turn under the given session_id, extract_memories
\* returns an empty list, makes no generation call and leaves every turn
\* list and fact list as it was.
C7_NoTurnsNoExtraction ==
    (Extracting /\ NoTurnsOfSession) =>
        /\ ret.kind = "return"
        /\ ret.value = EmptyList
        /\ gen = <<>>
        /\ sessions = pre.sessions
        /\ memories = pre.memories

\* a known user with turns in another session only, while another user has
\* turns under the session asked for
C7_Witness ==
    /\ Extracting
    /\ NoTurnsOfSession
    /\ TurnsBefore # <<>>
    /\ \E other \in DOMAIN pre.sessions \ {call.user_id} :
          \E i \in 1..Len(pre.sessions[other]) :
              pre.sessions[other][i].session_id = call.session_id

\* C8: for a user with no stored facts, search_memories returns an empty
\* list and makes no generation call.
C8_NoFactsNoSearch ==
    (Searching /\ FactsBefore = <<>>) =>
        /\ ret.kind = "return"
        /\ ret.value = EmptyList
        /\ gen = <<>>

\* a search for a user whose fact list exists and is empty (an extraction
\* that stored nothing came before), while another user has facts
C8_Witness ==
    /\ Searching
    /\ call.user_id \in DOMAIN pre.memories
    /\ FactsBefore = <<>>
    /\ \E other \in DOMAIN pre.memories : pre.memories[other] # <<>>

\* C9: every stored fact of a user carries a session_id under which that
\* user has at least one turn.
C9_FactsAttributedToSession ==
    \A user_id \in DOMAIN memories :
        \A i \in 1..Len(memories[user_id]) :
            /\ user_id \in DOMAIN sessions
            /\ \E j \in 1..Len(sessions[user_id]) :
                  sessions[user_id][j].session_id = memories[user_id][i].session_id

\* a stored fact whose generated object carried the session_id of a session
\* in which the user has no turn
C9_Witness ==
    \E user_id \in DOMAIN memories :
        /\ \E i \in 1..Len(memories[user_id]) :
              /\ memories[user_id][i].fact = AisleFact.fact
              /\ memories[user_id][i].session_id # AisleFact.session_id
        /\ \A j \in 1..Len(sessions[user_id]) :
              sessions[user_id][j].session_id # AisleFact.session_id

\* C10: add_session_message appends exactly one turn with the given
\* session_id, role and content to the end of the user's turn list, creating
\* the list for an unknown user, and changes no other turn list and no fact
\* list.
C10_AddAppendsOneTurn ==
    Adding =>
        /\ DOMAIN sessions = DOMAIN pre.sessions \cup {call.user_id}
        /\ Len(sessions[call.user_id]) = Len(TurnsBefore) + 1
        /\ SubSeq(sessions[call.user_id], 1, Len(TurnsBefore)) = TurnsBefore
        /\ LET turn == sessions[call.user_id][Len(TurnsBefore) + 1]
           IN  /\ turn.session_id = call.session_id
               /\ turn.role = call.role
               /\ turn.content = call.content
        /\ \A other \in DOMAIN pre.sessions \ {call.user_id} :
              sessions[other] = pre.sessions[other]
        /\ memories = pre.memories

\* a first turn added for an unknown user while another user has turns and
\* facts are stored
C10_Witness ==
    /\ Adding
    /\ call.user_id \notin DOMAIN pre.sessions
    /\ pre.sessions # EmptyDict
    /\ Total(memories) > 0

\* C11 as stated: a call of add_session_message with an empty user_id is
\* rejected and stores no turn.
C11_EmptyUserRejected ==
    (Adding /\ call.user_id = "") => sessions = pre.sessions

\* C11 amended: add_session_message validates nothing; every call, also one
\* with an empty user_id, returns normally and leaves the list under that
\* user_id one turn longer, whatever the session_id, role and text.
C11_EveryCallAccepted ==
    Adding =>
        /\ ret.kind = "return"
        /\ call.user_id \in DOMAIN sessions
        /\ Len(sessions[call.user_id]) = Len(TurnsBefore) + 1

\* a turn stored under the empty user_id, with an empty session_id, a role
\* outside user/assistant and an empty text
C11_Witness ==
    /\ Adding
    /\ call.user_id = ""
    /\ call.session_id = ""
    /\ call.role = "system"
    /\ call.content = <<>>
    /\ Len(sessions[""]) = 2

Summarising == call.op = "get_memory_summary"

\* C12: get_memory_summary returns the no-memories message for a user without
\* facts and, for a user with N >= 1 facts, a count line stating N followed
\* by one line per stored fact's text in insertion order; it changes no state.
C12_SummaryListsFacts ==
    Summarising =>
        /\ ret.kind = "return"
        /\ sessions = pre.sessions
        /\ memories = pre.memories
        /\ IF FactsBefore = <<>> THEN ret.value = NoMemoriesMessage
           ELSE /\ ret.value.t = "str"
                /\ Len(ret.value.v) = Len(FactsBefore) + 1
                /\ ret.value.v[1] = <<"User has", Len(FactsBefore), "stored memories:">>
                /\ \A i \in 1..Len(FactsBefore) :
                      ret.value.v[i + 1] = <<"-", FactsBefore[i].fact>>

\* the generation call answered with a well-formed payload in a json fence
FencedPayload ==
    IF gen = <<>> THEN FALSE
    ELSE IF gen[1].response.raises THEN FALSE
    ELSE gen[1].response.fence = "json" /\ gen[1].response.body # Garbage

\* C13: a payload P answered inside a json fence gives extract_memories and
\* search_memories what the raw answer P gives: extraction returns and
\* appends the objects of P stamped, search returns P.
C13_FenceTransparent ==
    FencedPayload =>
        LET body == gen[1].response.body
        IN  IF Extracting
            THEN (body.t = "list" /\ \A i \in 1..Len(body.v) : body.v[i].t = "obj") =>
                    /\ ret.line = 108
                    /\ ret.value = Stamped(body, call.session_id)
                    /\ FactsAfter = FactsBefore \o
                          [i \in 1..Len(body.v) |-> Stamp(body.v[i].v, call.session_id)]
            ELSE ret.line = 144 /\ ret.value = body

\* C17: every stored fact has the full shape: a fact text, a context, an
\* importance in 1..10, a session_id and an extraction timestamp.
C17_FactsHaveFullShape ==
    \A user_id \in DOMAIN memories :
        \A i \in 1..Len(memories[user_id]) :
            LET memory == memories[user_id][i]
            IN  /\ {"fact", "context", "importance", "session_id", "extracted_at"}
                      \subseteq DOMAIN memory
                /\ memory.importance \in 1..10

\* the generation call was made and raised
UpstreamFailed ==
    IF gen = <<>> THEN FALSE ELSE gen[1].response.raises

\* the first three elements of xs, or all of them when there are fewer
FirstThree(xs) == [i \in 1..(IF Len(xs) < 3 THEN Len(xs) ELSE 3) |-> xs[i]]

\* C14: a generation call that raises and one that answers with unparseable
\* text end the same way: both leave the store as it was before the call, and
\* both return the one value fixed by that store (an empty list from
\* extract_memories, the first three stored facts from search_memories).
C14_UpstreamSameAsMalformed ==
    (UpstreamFailed \/ Unparseable) =>
        /\ sessions = pre.sessions
        /\ memories = pre.memories
        /\ ret.kind = "return"
        /\ ret.value = IF Extracting THEN EmptyList
                       ELSE DictList(FirstThree(FactsBefore))

\* a search over four facts whose generation call raised
C14_Witness ==
    /\ Searching
    /\ UpstreamFailed
    /\ Len(FactsBefore) = 4

IsPrefix(xs, ys) == Len(xs) <= Len(ys) /\ SubSeq(ys, 1, Len(xs)) = xs

\* C15: in every step every user's turn list stays a prefix of that user's
\* turn list after the step, so the list of any earlier state is a prefix of
\* the list of any later one.
C15_TurnListsAppendOnly ==
    [][\A user_id \in DOMAIN sessions :
          /\ user_id \in DOMAIN sessions'
          /\ IsPrefix(sessions[user_id], sessions'[user_id])]_vars

\* a turn added to a list that already held one, after facts were extracted
C15_Witness ==
    /\ Adding
    /\ Len(sessions[call.user_id]) = 2
    /\ Total(memories) > 0

\* C16: a step that is not an extract_memories call leaves every fact list as
\* it is, and every step leaves each stored fact list a prefix of the list
\* after the step.
C16_FactsOnlyAppendedByExtraction ==
    [][/\ call'.op # "extract_memories" => memories' = memories
       /\ \A user_id \in DOMAIN memories :
             /\ user_id \in DOMAIN memories'
             /\ IsPrefix(memories[user_id], memories'[user_id])]_vars

\* an extraction that appended to a list which already held a fact
C16_Witness ==
    /\ Extracting
    /\ FactsBefore # <<>>
    /\ Len(FactsAfter) > Len(FactsBefore)
    /\ FactsAfter[1] # FactsAfter[Len(FactsAfter)]

\* a result item without its relevance_score
Unscored(item) == [k \in DOMAIN item \ {"relevance_score"} |-> item[k]]

\* C18: the list search_memories returns on the well-formed path consists of
\* stored facts of the user, each with a relevance_score in 1..10, in
\* non-increasing order of relevance_score.
C18_RankedResultsFromStore ==
    (Searching /\ ret.line = 144 /\ ret.value.t = "list") =>
        LET results == ret.value.v
        IN  /\ \A i \in 1..Len(results) :
                  /\ results[i].t = "obj"
                  /\ "relevance_score" \in DOMAIN results[i].v
                  /\ results[i].v.relevance_score \in 1..10
                  /\ \E j \in 1..Len(FactsBefore) :
                        Unscored(results[i].v) = FactsBefore[j]
            /\ \A i \in 1..(Len(results) - 1) :
                  results[i].v.relevance_score >= results[i + 1].v.relevance_score

\* C19: a search that ends on the well-formed path never returns the value
\* the fallback path returns from the same store (the first three facts).
C19_DegradedDistinguishable ==
    (Searching /\ ret.line = 144) => ret.value # DictList(FirstThree(FactsBefore))

\* the indices of the user's turns that carry the call's session_id
SessionTurns ==
    {i \in 1..Len(TurnsBefore) : TurnsBefore[i].session_id = call.session_id}

\* C20: the transcript extract_memories submits has one line per turn of the
\* user that carries the session_id argument, the k-th line being the role
\* and text of the k-th such turn of the list, and no other line.
C20_TranscriptIsSessionTurns ==
    (Extracting /\ gen # <<>>) =>
        LET conversation == gen[1].prompt.conversation
        IN  /\ Len(conversation) = Cardinality(SessionTurns)
            /\ \A i \in SessionTurns :
                  conversation[Cardinality({j \in SessionTurns : j <= i})]
                      = <<TurnsBefore[i].role, TurnsBefore[i].content>>

\* a transcript of the first and third turn, of different roles, the second
\* turn belonging to another session
C20_Witness ==
    /\ Extracting
    /\ gen # <<>>
    /\ Len(TurnsBefore) = 3
    /\ SessionTurns = {1, 3}
    /\ TurnsBefore[1].role # TurnsBefore[3].role

\* what a call of extract_memories in the current state submits, returns and
\* leaves stored for its user, the generation call answering with response
ExtractOutcome(user_id, session_id, response) ==
    IF NoSessionMessages(user_id, session_id)
    THEN [prompt |-> <<>>, value |-> EmptyList,
          turns |-> ListOf(sessions, user_id),
          known |-> user_id \in DOMAIN memories,
          facts |-> ListOf(memories, user_id)]
    ELSE LET try == ExtractTry(user_id, session_id, response)
         IN  [prompt |-> <<ExtractionPrompt(
                              Conversation(SessionMessages(user_id, session_id)))>>,
              value |-> IF try.raised THEN EmptyList ELSE try.value,
              turns |-> ListOf(sessions, user_id),
              known |-> user_id \in DOMAIN try.memories,
              facts |-> ListOf(try.memories, user_id)]

\* the same for a call of search_memories
SearchOutcome(user_id, query, response) ==
    IF NoMemories(user_id)
    THEN [prompt |-> <<>>, value |-> EmptyList,
          turns |-> ListOf(sessions, user_id),
          known |-> user_id \in DOMAIN memories,
          facts |-> ListOf(memories, user_id)]
    ELSE LET try == SearchTry(response)
         IN  [prompt |-> <<SearchPrompt(query, memories[user_id])>>,
              value |-> IF try.raised THEN DictList(Fallback(memories[user_id]))
                        ELSE try.value,
              turns |-> ListOf(sessions, user_id),
              known |-> TRUE,
              facts |-> memories[user_id]]

\* the same for a call of get_memory_summary, which submits nothing
SummaryOutcome(user_id) ==
    [prompt |-> <<>>,
     value |-> IF ListOf(memories, user_id) = <<>> THEN NoMemoriesMessage
               ELSE IF \E i \in 1..Len(memories[user_id]) :
                          "fact" \notin DOMAIN memories[user_id][i]
               THEN JStr(<<"KeyError">>)
               ELSE SummaryText(memories[user_id]),
     turns |-> ListOf(sessions, user_id),
     known |-> user_id \in DOMAIN memories,
     facts |-> ListOf(memories, user_id)]

\* what the state shows of the call just made
ObservedOutcome ==
    [prompt |-> [i \in 1..Len(gen) |-> gen[i].prompt],
     value |-> IF ret.kind = "raise" THEN JStr(<<ret.value>>) ELSE ret.value,
     turns |-> ListOf(sessions, call.user_id),
     known |-> call.user_id \in DOMAIN memories,
     facts |-> ListOf(memories, call.user_id)]

\* every outcome a call for user_id can have in the current state
OutcomesOf(user_id) ==
    [extract |-> [session_id \in SessionIds |->
                    [response \in SessionExtractResponses |->
                        ExtractOutcome(user_id, session_id, response)]],
     search |-> [query \in Queries |->
                    [response \in FewSearchResponses |->
                        SearchOutcome(user_id, query, response)]],
     summary |-> SummaryOutcome(user_id)]

\* C21: users are isolated.  The prompt, the result and the turns and facts
\* left for user A by an extract_memories, search_memories or
\* get_memory_summary call are a function of A's own turns and facts: a
\* step made for another user B changes neither A's turns and facts nor the
\* outcome of any call for A, also when B uses A's session_id; and the call
\* observed for A has the outcome that function gives.
C21_UsersIsolated ==
    [][\A a \in UserIds :
          IF call'.user_id # a
          THEN /\ ListOf(sessions', a) = ListOf(sessions, a)
               /\ (a \in DOMAIN memories') = (a \in DOMAIN memories)
               /\ ListOf(memories', a) = ListOf(memories, a)
               /\ OutcomesOf(a)' = OutcomesOf(a)
          ELSE CASE call'.op = "extract_memories" ->
                      ObservedOutcome' =
                          ExtractOutcome(a, call'.session_id,
                                         IF gen' = <<>> THEN Raised
                                         ELSE gen'[1].response)
                 [] call'.op = "search_memories" ->
                      ObservedOutcome' =
                          SearchOutcome(a, call'.query,
                                        IF gen' = <<>> THEN Raised
                                        ELSE gen'[1].response)
                 [] call'.op = "get_memory_summary" ->
                      ObservedOutcome' = SummaryOutcome(a)
                 [] OTHER -> TRUE]_vars

\* an extraction for one user while another user holds a turn of the same
\* session_id and a fact
C21_Witness ==
    /\ Extracting
    /\ gen # <<>>
    /\ \E b \in DOMAIN pre.sessions \ {call.user_id} :
          /\ \E i \in 1..Len(pre.sessions[b]) :
                pre.sessions[b][i].session_id = call.session_id
          /\ ListOf(pre.memories, b) # <<>>

RECURSIVE CompletedCalls(_)
CompletedCalls(T) ==
    IF T = {} THEN 0
    ELSE LET t == CHOOSE x \in T : TRUE IN threads[t].calls + CompletedCalls(T \ {t})

\* C22: when every caller runs its add_session_message call under the one
\* lock, the user's list holds one turn per completed call under every
\* interleaving, so both turns once both callers are done; without the lock
\* the list never holds more turns than calls completed, and (the witness)
\* some interleaving of the test, the creation and the append leaves fewer.
C22_SerializedCallsStoreEveryTurn ==
    /\ locking => Len(ListOf(sessions, OneUser)) = CompletedCalls(Threads)
    /\ Len(ListOf(sessions, OneUser)) <= CompletedCalls(Threads)

\* two callers without the lock, both done, and fewer than two turns stored
C22_Witness ==
    /\ ~locking
    /\ \A t \in Threads : threads[t].pc = "idle" /\ threads[t].calls = 1
    /\ Len(ListOf(sessions, OneUser)) < 2

\* C23: a PreToolUse hook process whose input parsed as a JSON object ends
\* with exit status 0, whatever the tool name and whichever of the service
\* setup, the retrieval, the session creation, the load and the save of the
\* mapping, the event append and the memory generation failed.
C23_PreToolUseExitsZero ==
    \A p \in Pids :
        (procs[p].hook = "PreToolUse" /\ procs[p].parsed /\ procs[p].pc = "exited")
            => procs[p].status = 0

\* a PreToolUse process for Edit that ended after get_session succeeded and
\* append_event failed
C23_Witness ==
    \E p \in Pids :
        /\ procs[p].hook = "PreToolUse"
        /\ procs[p].tool_name = "Edit"
        /\ procs[p].pc = "exited"
        /\ Len(procs[p].calls) = 1

\* C27: a hook process whose read of the mapping file failed, and which
\* then created a session and saved the mapping, leaves in the file every
\* Claude session id that was in it before.
C27_ReadFailureLosesNoMapping ==
    [][\A p \in Pids :
          (procs[p].pc = "savemap" /\ ~procs[p].read_ok /\ procs'[p].pc # "savemap")
              => \A c \in DOMAIN mapping_file :
                     IF c \in DOMAIN mapping_file'
                     THEN mapping_file'[c] = mapping_file[c]
                     ELSE FALSE]_vars

\* C28: in every hook, generate_memories is called for a session only after
\* get_session and append_event succeeded for that session in the same
\* invocation, in that order; and a process whose input parsed ends with
\* status 0 whether or not those calls failed.
C28_GenerateOnlyAfterAppend ==
    \A p \in Pids :
        /\ \A i \in 1..Len(procs[p].calls) :
              /\ procs[p].calls[i].op = "generate_memories" =>
                    /\ i = 3
                    /\ procs[p].calls[2].op = "append_event"
                    /\ procs[p].calls[2].session = procs[p].calls[i].session
              /\ procs[p].calls[i].op = "append_event" =>
                    /\ i = 2
                    /\ procs[p].calls[1].op = "get_session"
                    /\ procs[p].calls[1].session = procs[p].calls[i].session
        /\ (procs[p].parsed /\ procs[p].pc = "exited") => procs[p].status = 0

\* a Stop hook process that ended after append_event failed, with
\* get_session its only call
C28_Witness ==
    \E p \in Pids :
        /\ procs[p].hook = "Stop"
        /\ procs[p].pc = "exited"
        /\ Len(procs[p].calls) = 1
        /\ procs[p].calls[1].op = "get_session"

\* the sessions created so far for the Claude session id c
SessionsOf(made, c) == {i \in 1..Len(made) : made[i].user_id = c}

\* C25: with invocations one after another and the mapping file readable
\* and writable, a session is created only for a Claude session id that is
\* not in the file, so an invocation whose id is in the file creates none
\* and saves into the mapped session; an entry of the file never changes;
\* and no Claude session id has more than one session created for it.
C25_MappedSessionReused ==
    [][/\ \A c \in DOMAIN mapping_file :
             c \in DOMAIN mapping_file' /\ mapping_file'[c] = mapping_file[c]
       /\ memory_sessions' # memory_sessions =>
             /\ Len(memory_sessions') = Len(memory_sessions) + 1
             /\ memory_sessions'[Len(memory_sessions')].user_id
                    \notin DOMAIN mapping_file
       /\ \A c \in ClaudeIds : Cardinality(SessionsOf(memory_sessions', c)) <= 1
       /\ \A p \in Pids : \A i \in 1..Len(procs'[p].calls) :
             /\ procs'[p].claude_session_id \in DOMAIN mapping_file'
             /\ procs'[p].calls[i].session
                    = mapping_file'[procs'[p].claude_session_id]]_vars

\* a PostToolUse hook that saved into the session an earlier store command
\* created for its Claude session id, no other session existing
C25_Witness ==
    \E p \in Pids :
        /\ procs[p].hook = "PostToolUse"
        /\ procs[p].pc = "exited"
        /\ Len(procs[p].calls) = 3
        /\ Len(memory_sessions) = 1
        /\ memory_sessions[1].app_name = "claude-code-multi-agent"
        /\ memory_sessions[1].user_id = procs[p].claude_session_id

\* C26: under every interleaving of two hook processes, once both have
\* finished the mapping file has an entry for every Claude session id a
\* process mapped, and no Claude session id has had more than one session
\* created for it.
C26_InterleavedMappingsKept ==
    Quiet =>
        /\ \A p \in Pids :
              procs[p].claude_session_id \in DOMAIN procs[p].session_mapping
                  => procs[p].claude_session_id \in DOMAIN mapping_file
        /\ \A c \in ClaudeIds : Cardinality(SessionsOf(memory_sessions, c)) <= 1

\* the number of elements of xs equal to x
Count(xs, x) == Cardinality({i \in 1..Len(xs) : xs[i] = x})

\* the score of a fact under a hint, in halves: one half, and one for every
\* query term found in the fact without regard to case
HalvesOf(fact, context_hint) ==
    LET terms == QueriesOf(context_hint)
    IN  1 + 2 * Cardinality({k \in 1..Len(terms) : Contains(terms[k], Lower(fact))})

Failing(args, file) ==
    CASE args[1] = "store" ->
           {"client", "no_engines", "read", "append"}
               \cup (IF args[2] \in DOMAIN file THEN {} ELSE {"create", "write"})
      [] args[1] = "generate" -> {"client", "no_engines", "read", "generate"}
      [] args[1] = "retrieve" -> {"client", "no_engines", "retrieve", "write"}
      [] OTHER -> {}

\* C30: the command ends with status 0 exactly when its action returned
\* True.  store returns True only with an event appended to the session the
\* file maps the Claude session id to; generate returns True only for an id
\* that was mapped already and never changes the file or creates a session;
\* too few arguments, an unknown action, no agent engine and every failing
\* call give status 1.
C30_StatusZeroIffActionTrue ==
    [][\A p \in Pids :
          (procs[p].pc = "main" /\ procs'[p].pc = "exited") =>
              LET f == procs'[p]
                  args == f.input.args
              IN  /\ f.status = IF f.returned = "True" THEN 0 ELSE 1
                  /\ IF Len(args) < 2 THEN f.status = 1 /\ f.returned = "none"
                     ELSE /\ args[1] \notin {"store", "generate", "retrieve"}
                                => f.status = 1 /\ f.returned = "none"
                          /\ (args[1] = "store" /\ Len(args) < 4)
                                => /\ f.status = 1
                                   /\ f.returned = "none"
                                   /\ UNCHANGED <<mapping_file, memory_sessions>>
                          /\ (args[1] = "store" /\ f.status = 0)
                                => /\ args[2] \in DOMAIN mapping_file'
                                   /\ f.calls = <<[op |-> "append_event",
                                                   session |-> mapping_file'[args[2]]]>>
                          /\ args[1] = "generate"
                                => /\ UNCHANGED <<mapping_file, memory_sessions>>
                                   /\ f.status = 0 =>
                                         /\ args[2] \in DOMAIN mapping_file
                                         /\ f.calls = <<[op |-> "generate_memories",
                                                         session |-> mapping_file[args[2]]]>>
                          /\ f.input.failure \in Failing(args, mapping_file)
                                => f.status = 1]_vars

\* a generate command that ended with status 0 for a Claude session id an
\* earlier store command had mapped
C30_Witness ==
    \E p \in Pids :
        /\ procs[p].pc = "exited"
        /\ procs[p].action = "generate"
        /\ procs[p].status = 0
        /\ procs[p].runs = 2

\* C24: a load_context hook process whose input is a JSON object ends
\* with exit status 0, whatever the tool name and the tool input (an empty
\* or blank Bash command included) and whatever the searches answer.
C24_LoadContextExitsZero ==
    \A p \in Pids :
        (/\ procs[p].hook = "load_context"
         /\ procs[p].pc = "exited"
         /\ procs[p].parsed
         /\ procs[p].input.write_ok) => procs[p].status = 0

====
